---- MODULE Spec2Model ----
(***************************************************************************)
(* A model of analysis.py: the report driver main() and the four query     *)
(* helpers it calls, with the two label formatters.                        *)
(*                                                                         *)
(* Representation.  A table is a sequence of rows; a row is a record with  *)
(* the columns the queries read.  A nullable SQL value and a Python value  *)
(* that may be None are the empty tuple NULL or a one-element tuple <<v>>. *)
(* Emissions are integers (tenths of a kilogram), a mean is the pair       *)
(* [sum, cnt] compared by cross-multiplication, so that AVG is exact.      *)
(* Where SQL leaves a result open (which of several tied rows ORDER BY ..  *)
(* LIMIT 1 returns) the operator yields the set of possible results.       *)
(***************************************************************************)
EXTENDS Integers, Sequences, FiniteSets, TLC

VARIABLES
    dbFile,     \* os.path.exists(DB_PATH)
    catalog,    \* the table names information_schema.tables holds
    yellow,     \* rows of yellow_transform
    green,      \* rows of green_transform
    pc,         \* position in main(), or in the call of a helper
    t,          \* index of the (label, table) loop of the current question
    con,        \* the DuckDB connection: "none", "open", "closed"
    opens,      \* number of duckdb.connect calls that returned
    closes,     \* number of con.close() calls
    stdout,     \* the lines printed so far
    exitCode,   \* NULL while running, <<0>> normal end, <<1>> sys.exit(1)
    attempted,  \* the <<question, loop index>> whose query was executed
    raised,     \* the <<question, loop index>> whose query raised
    checkErr,   \* the tables whose existence check raised in the backend
    arg,        \* argument of the helper under call (bucket column, n)
    res         \* what the last helper call returned

vars == <<dbFile, catalog, yellow, green, pc, t, con, opens, closes, stdout,
          exitCode, attempted, raised, checkErr, arg, res>>

----------------------------------------------------------------------------
(* Program constants                                                       *)

YELLOW_TBL == "yellow_transform"
GREEN_TBL == "green_transform"
REQUIRED == <<YELLOW_TBL, GREEN_TBL>>
LABELS == <<"Yellow", "Green">>
BUCKET_COLS == <<"hour_of_day", "day_of_week", "week_of_year", "month_of_year">>
x_labels == <<"Jan","Feb","Mar","Apr","May","Jun","Jul","Aug","Sep","Oct","Nov","Dec">>

NULL == <<>>

----------------------------------------------------------------------------
(* SQL aggregates over a set of row indices of a table                      *)

RECURSIVE SumOver(_, _)
SumOver(rows, idx) ==
    IF idx = {} THEN 0
    ELSE LET i == CHOOSE j \in idx : TRUE
         IN rows[i].trip_co2_kgs[1] + SumOver(rows, idx \ {i})

NonNullIdx(rows, idx) == {i \in idx : rows[i].trip_co2_kgs # NULL}

\* SUM(trip_co2_kgs): nulls are skipped, NULL when no value is left
SUM(rows, idx) ==
    IF NonNullIdx(rows, idx) = {} THEN NULL
    ELSE <<SumOver(rows, NonNullIdx(rows, idx))>>

\* AVG(trip_co2_kgs): nulls are skipped, NULL when no value is left
AVG(rows, idx) ==
    IF NonNullIdx(rows, idx) = {} THEN NULL
    ELSE <<[sum |-> SumOver(rows, NonNullIdx(rows, idx)),
            cnt |-> Cardinality(NonNullIdx(rows, idx))]>>

\* COUNT(*): every row of the group
COUNT(rows, idx) == Cardinality(idx)

COALESCE(v, d) == IF v = NULL THEN d ELSE v[1]

\* a <= b for two means
MeanLeq(a, b) == a.sum * b.cnt <= b.sum * a.cnt

GroupIdx(rows, col, b) == {i \in DOMAIN rows : rows[i][col] = b}
GroupKeys(rows, col) == {rows[i][col] : i \in DOMAIN rows}

----------------------------------------------------------------------------
(* Helper functions                                                         *)

_table_exists_failopen(present, backendRaises) ==
    IF backendRaises THEN TRUE ELSE present

\* try: COUNT(*) > 0 over information_schema.tables; except Exception: False
_table_exists(present, backendRaises) ==
    IF backendRaises THEN FALSE ELSE present

_largest_trip_asc(rows) ==
    LET q == NonNullIdx(rows, DOMAIN rows)
        first == {i \in q : \A j \in q :
                     rows[i].trip_co2_kgs[1] <= rows[j].trip_co2_kgs[1]}
    IN IF q = {} THEN {NULL}
       ELSE {<<rows[i].trip_co2_kgs[1], rows[i].trip_distance,
               rows[i].pickup_datetime, rows[i].dropoff_datetime>> : i \in first}

\* WHERE trip_co2_kgs IS NOT NULL ORDER BY trip_co2_kgs DESC LIMIT 1, fetchone():
\* None when no row qualifies, else one of the rows with the largest value
_largest_trip(rows) ==
    LET q == NonNullIdx(rows, DOMAIN rows)
        first == {i \in q : \A j \in q :
                     rows[i].trip_co2_kgs[1] >= rows[j].trip_co2_kgs[1]}
    IN IF q = {} THEN {NULL}
       ELSE {<<rows[i].trip_co2_kgs[1], rows[i].trip_distance,
               rows[i].pickup_datetime, rows[i].dropoff_datetime>> : i \in first}

\* the CTE stats: one row per value of the bucket column, over ALL rows
stats(rows, bucket_col) ==
    {[bucket  |-> b,
      avg_co2 |-> AVG(rows, GroupIdx(rows, bucket_col, b)),
      n       |-> COUNT(rows, GroupIdx(rows, bucket_col, b))] :
        b \in GroupKeys(rows, bucket_col)}

\* the rows that ORDER BY avg_co2 [DESC] LIMIT 1 may return; DuckDB sorts
\* NULL last in either direction, and ties are in no defined order
OrderLimit1(st, desc) ==
    LET nn == {s \in st : s.avg_co2 # NULL}
    IN IF nn = {} THEN st
       ELSE {s \in nn : \A o \in nn :
                IF desc THEN MeanLeq(o.avg_co2[1], s.avg_co2[1])
                        ELSE MeanLeq(s.avg_co2[1], o.avg_co2[1])}

\* (SELECT field FROM stats ORDER BY avg_co2 [DESC] LIMIT 1): a scalar
\* subquery, NULL over an empty stats; the avg_co2 it reads may be NULL
Scalar(st, field, desc) ==
    IF st = {} THEN {NULL}
    ELSE {IF field = "avg_co2" THEN s.avg_co2 ELSE <<s[field]>> :
             s \in OrderLimit1(st, desc)}

\* the one row of six scalar subqueries, each evaluated on its own
_heavy_light_bucket_avg(rows, bucket_col) ==
    LET st == stats(rows, bucket_col)
    IN {<<h, ha, hn, l, la, ln>> :
           h \in Scalar(st, "bucket", TRUE), ha \in Scalar(st, "avg_co2", TRUE),
           hn \in Scalar(st, "n", TRUE),
           l \in Scalar(st, "bucket", FALSE), la \in Scalar(st, "avg_co2", FALSE),
           ln \in Scalar(st, "n", FALSE)}

\* the CTEs y and g: SUM(trip_co2_kgs) GROUP BY month_of_year
MonthTotals(rows) ==
    {[trip_month |-> m, total_co2 |-> SUM(rows, GroupIdx(rows, "month_of_year", m))] :
        m \in GroupKeys(rows, "month_of_year")}

\* LEFT JOIN s ON s.trip_month = m: the total of the group, NULL without one
LeftJoin(s, m) ==
    IF \E r \in s : r.trip_month = m
    THEN (CHOOSE r \in s : r.trip_month = m).total_co2
    ELSE NULL

\* ORDER BY trip_month, ascending
RECURSIVE OrderBy(_)
OrderBy(S) ==
    IF S = {} THEN <<>>
    ELSE LET m == CHOOSE x \in S : \A y \in S : x <= y
         IN <<m>> \o OrderBy(S \ {m})

SeriesOver(months, y, g) ==
    [i \in DOMAIN months |->
        [trip_month       |-> months[i],
         yellow_total_co2 |-> COALESCE(LeftJoin(y, months[i]), 0),
         green_total_co2  |-> COALESCE(LeftJoin(g, months[i]), 0)]]

_month_series_totals_swapped(yellow_table, green_table) ==
    LET y == MonthTotals(yellow_table)
        g == MonthTotals(green_table)
        all_months == {r.trip_month : r \in y} \cup {r.trip_month : r \in g}
    IN SeriesOver(OrderBy(all_months), g, y)

_month_series_totals_yellow_months(yellow_table, green_table) ==
    LET y == MonthTotals(yellow_table)
        g == MonthTotals(green_table)
        all_months == {r.trip_month : r \in y}
    IN SeriesOver(OrderBy(all_months), y, g)

\* the frame fetchdf() returns, as the sequence of its rows
_month_series_totals(yellow_table, green_table) ==
    LET y == MonthTotals(yellow_table)
        g == MonthTotals(green_table)
        all_months == {r.trip_month : r \in y} \cup {r.trip_month : r \in g}
    IN SeriesOver(OrderBy(all_months), y, g)

\* str(n) of a Python int
DigitChars == <<"0","1","2","3","4","5","6","7","8","9">>
RECURSIVE Digits(_)
Digits(n) ==
    IF n < 10 THEN DigitChars[n + 1]
    ELSE Digits(n \div 10) \o DigitChars[(n % 10) + 1]
str(n) == IF n < 0 THEN "-" \o Digits(-n) ELSE Digits(n)

_month_name_from_zero(n) ==
    LET names == <<"Jan","Feb","Mar","Apr","May","Jun","Jul","Aug","Sep","Oct","Nov","Dec">>
    IN IF 0 <= n /\ n <= 12 THEN names[IF n = 0 THEN 12 ELSE n] ELSE str(n)

\* names[n-1] if 1 <= n <= 12 else str(n); names is 0-based in the source
_month_name(n) ==
    LET names == <<"Jan","Feb","Mar","Apr","May","Jun","Jul","Aug","Sep","Oct","Nov","Dec">>
    IN IF 1 <= n /\ n <= 12 THEN names[(n - 1) + 1] ELSE str(n)

\* names[n] if 0 <= n <= 6 else str(n)
_dow_name(n) ==
    LET names == <<"Sun","Mon","Tue","Wed","Thu","Fri","Sat">>
    IN IF 0 <= n /\ n <= 6 THEN names[n + 1] ELSE str(n)

----------------------------------------------------------------------------
(* Inputs                                                                   *)

MaxRows == 2          \* main(): rows of the two tables together
MaxBucketRows == 3    \* _heavy_light_bucket_avg: rows of the table
MaxSeriesRows == 3    \* _month_series_totals: rows of the two tables together
MaxN == 30            \* _month_name, _dow_name: |n|

\* two trips with the derived columns of their pickup time
Trips ==
    {[trip_distance |-> 1, pickup_datetime |-> "2024-01-07 05:10:00",
      dropoff_datetime |-> "2024-01-07 05:30:00",
      hour_of_day |-> 5, day_of_week |-> 0, week_of_year |-> 1, month_of_year |-> 1],
     [trip_distance |-> 3, pickup_datetime |-> "2024-03-16 09:00:00",
      dropoff_datetime |-> "2024-03-16 09:45:00",
      hour_of_day |-> 9, day_of_week |-> 6, week_of_year |-> 11, month_of_year |-> 3]}

WithCo2(trip, co2) ==
    [trip_co2_kgs |-> co2, trip_distance |-> trip.trip_distance,
     pickup_datetime |-> trip.pickup_datetime,
     dropoff_datetime |-> trip.dropoff_datetime,
     hour_of_day |-> trip.hour_of_day, day_of_week |-> trip.day_of_week,
     week_of_year |-> trip.week_of_year, month_of_year |-> trip.month_of_year]

WithBucket(trip, col, b) == [trip EXCEPT ![col] = b]

MainRows == {WithCo2(trip, co2) : trip \in Trips, co2 \in {NULL, <<0>>, <<12>>}}

TablesOf(rowSet, n) == [1..n -> rowSet]

----------------------------------------------------------------------------
(* main()                                                                   *)

Table(i) == IF REQUIRED[i] = YELLOW_TBL THEN yellow ELSE green

Header(q) == <<"Question", str(q)>>
AnalysisFailed == <<"Analysis failed">>

Init ==
    /\ dbFile \in BOOLEAN
    /\ catalog \in SUBSET {YELLOW_TBL, GREEN_TBL}
    /\ dbFile = FALSE => catalog = {}
    /\ \E ny \in 0..MaxRows : \E ng \in 0..(MaxRows - ny) :
          /\ yellow \in TablesOf(MainRows, ny)
          /\ green \in TablesOf(MainRows, ng)
    /\ YELLOW_TBL \notin catalog => yellow = <<>>
    /\ GREEN_TBL \notin catalog => green = <<>>
    /\ pc = "start"
    /\ t = 1
    /\ con = "none"
    /\ opens = 0
    /\ closes = 0
    /\ stdout = <<>>
    /\ exitCode = NULL
    /\ attempted = {}
    /\ raised = {}
    /\ checkErr = {}
    /\ arg = NULL
    /\ res = NULL

\* lines 122-126: the file check, then duckdb.connect; an exception of connect
\* reaches the outermost handler (lines 203-206)
Start ==
    /\ pc = "start"
    /\ IF ~dbFile
       THEN /\ stdout' = Append(stdout, <<"DuckDB file not found">>)
            /\ exitCode' = <<1>>
            /\ pc' = "exited"
            /\ UNCHANGED <<con, opens>>
       ELSE \E connectRaises \in BOOLEAN :
              IF connectRaises
              THEN /\ stdout' = Append(stdout, AnalysisFailed)
                   /\ exitCode' = <<1>>
                   /\ pc' = "exited"
                   /\ UNCHANGED <<con, opens>>
              ELSE /\ con' = "open"
                   /\ opens' = opens + 1
                   /\ pc' = "check"
                   /\ UNCHANGED <<stdout, exitCode>>
    /\ UNCHANGED <<dbFile, catalog, yellow, green, t, closes, attempted, raised,
                   checkErr, arg, res>>

\* lines 128-131: one iteration of the loop over the required tables;
\* sys.exit(1) raises SystemExit, which `except Exception` does not catch
CheckTable ==
    /\ pc = "check"
    /\ \E backendRaises \in BOOLEAN :
          /\ checkErr' = IF backendRaises THEN checkErr \cup {REQUIRED[t]} ELSE checkErr
          /\ IF ~_table_exists(REQUIRED[t] \in catalog, backendRaises)
             THEN /\ stdout' = Append(stdout, <<"Missing required table", REQUIRED[t]>>)
                  /\ exitCode' = <<1>>
                  /\ pc' = "exited"
                  /\ t' = t
             ELSE /\ IF t < Len(REQUIRED)
                     THEN t' = t + 1 /\ pc' = pc
                     ELSE t' = 1 /\ pc' = "q1"
                  /\ UNCHANGED <<stdout, exitCode>>
    /\ UNCHANGED <<dbFile, catalog, yellow, green, con, opens, closes, attempted,
                   raised, arg, res>>

\* the header is printed before the first iteration of a question's loop
WithHeader(q) == IF t = 1 THEN Append(stdout, Header(q)) ELSE stdout

\* lines 203-206: print "Analysis failed", sys.exit(1); the connection stays open
Handler(out) ==
    /\ stdout' = Append(out, AnalysisFailed)
    /\ exitCode' = <<1>>
    /\ pc' = "exited"
    /\ t' = t

\* the next iteration of the loop over (label, table), or the next question
Advance(next) ==
    /\ IF t < Len(LABELS) THEN t' = t + 1 /\ pc' = pc ELSE t' = 1 /\ pc' = next
    /\ exitCode' = exitCode

\* lines 133-142: one iteration of question 1
Q1 ==
    /\ pc = "q1"
    /\ attempted' = attempted \cup {<<1, t>>}
    /\ \E backendRaises \in BOOLEAN : \E row \in _largest_trip(Table(t)) :
          IF backendRaises
          THEN /\ raised' = raised \cup {<<1, t>>}
               /\ res' = res
               /\ Handler(WithHeader(1))
          ELSE /\ raised' = raised
               /\ res' = row
               /\ stdout' = Append(WithHeader(1),
                     IF row # NULL
                     THEN <<"largest", LABELS[t], row[1], row[2], row[3], row[4]>>
                     ELSE <<"No data found", LABELS[t]>>)
               /\ Advance("q2")
    /\ UNCHANGED <<dbFile, catalog, yellow, green, con, opens, closes, checkErr, arg>>

\* how questions 2-5 print a bucket: int(h), through a name in 3 and 5
BucketLabel(q, v) ==
    CASE q = 3 -> _dow_name(v)
      [] q = 5 -> _month_name(v)
      [] OTHER -> str(v)

\* int(None) and format(None, ".4f") raise TypeError; {hn} prints None as it is
FormatRaises(r) == r[1] = NULL \/ r[2] = NULL \/ r[4] = NULL \/ r[5] = NULL

\* lines 144-170: one iteration of question q in 2..5
HeavyLight(q) ==
    /\ pc = "q" \o str(q)
    /\ attempted' = attempted \cup {<<q, t>>}
    /\ \E backendRaises \in BOOLEAN :
       \E r \in _heavy_light_bucket_avg(Table(t), BUCKET_COLS[q - 1]) :
          IF backendRaises
          THEN /\ raised' = raised \cup {<<q, t>>}
               /\ res' = res
               /\ Handler(WithHeader(q))
          ELSE /\ raised' = raised
               /\ res' = r
               /\ IF FormatRaises(r)
                  THEN Handler(WithHeader(q))
                  ELSE /\ stdout' = Append(WithHeader(q),
                             <<"MOST/LEAST", LABELS[t],
                               BucketLabel(q, r[1][1]), r[2][1], r[3],
                               BucketLabel(q, r[4][1]), r[5][1], r[6]>>)
                       /\ Advance("q" \o str(q + 1))
    /\ UNCHANGED <<dbFile, catalog, yellow, green, con, opens, closes, checkErr, arg>>

Q2 == HeavyLight(2)
Q3 == HeavyLight(3)
Q4 == HeavyLight(4)
Q5 == HeavyLight(5)

Column(frame, name) == [i \in DOMAIN frame |-> frame[i][name]]

\* plt.plot(x, y) raises ValueError unless x and y have the same length; any
\* other step of the rendering may fail too; both end in `except Exception`
PlotRaises(monthly, sinkRaises) ==
    \/ sinkRaises
    \/ Len(Column(monthly, "yellow_total_co2")) # Len(x_labels)
    \/ Len(Column(monthly, "green_total_co2")) # Len(x_labels)

\* lines 172-198: question 6, the query and the plot
Q6 ==
    /\ pc = "q6"
    /\ attempted' = attempted \cup {<<6, 1>>}
    /\ \E backendRaises \in BOOLEAN, sinkRaises \in BOOLEAN :
          IF backendRaises
          THEN /\ raised' = raised \cup {<<6, 1>>}
               /\ res' = res
               /\ Handler(Append(stdout, Header(6)))
          ELSE LET monthly == _month_series_totals(yellow, green)
               IN /\ raised' = raised
                  /\ res' = monthly
                  /\ stdout' = Append(Append(stdout, Header(6)),
                        IF PlotRaises(monthly, sinkRaises)
                        THEN <<"Plotting failed">>
                        ELSE <<"Saved plot">>)
                  /\ pc' = "close"
                  /\ UNCHANGED <<t, exitCode>>
    /\ UNCHANGED <<dbFile, catalog, yellow, green, con, opens, closes, checkErr, arg>>

\* lines 200-201: con.close(), then main() returns and the process ends
Close ==
    /\ pc = "close"
    /\ con' = "closed"
    /\ closes' = closes + 1
    /\ exitCode' = <<0>>
    /\ pc' = "exited"
    /\ UNCHANGED <<dbFile, catalog, yellow, green, t, opens, stdout, attempted,
                   raised, checkErr, arg, res>>

Next == Start \/ CheckTable \/ Q1 \/ Q2 \/ Q3 \/ Q4 \/ Q5 \/ Q6 \/ Close

Spec == Init /\ [][Next]_vars

----------------------------------------------------------------------------
(* The helpers called on their own                                          *)

\* main()'s variables while a helper is called on its own
Idle ==
    /\ dbFile = TRUE
    /\ catalog = {YELLOW_TBL, GREEN_TBL}
    /\ t = 1
    /\ con = "none"
    /\ opens = 0
    /\ closes = 0
    /\ stdout = <<>>
    /\ exitCode = NULL
    /\ attempted = {}
    /\ raised = {}
    /\ checkErr = {}
    /\ res = NULL

IdleVars == <<dbFile, catalog, yellow, green, t, con, opens, closes, stdout,
              exitCode, attempted, raised, checkErr, arg>>

BaseTrip == CHOOSE trip \in Trips : trip.hour_of_day = 5

\* two values of each bucket column, the ends of its range among them
BucketValues(col) ==
    CASE col = "hour_of_day"   -> {5, 9}
      [] col = "day_of_week"   -> {0, 6}
      [] col = "week_of_year"  -> {1, 53}
      [] col = "month_of_year" -> {1, 12}

BucketRows(col) ==
    {WithBucket(WithCo2(BaseTrip, co2), col, b) :
        co2 \in {NULL, <<1>>, <<12>>, <<34>>}, b \in BucketValues(col)}

InitBucket ==
    /\ Idle
    /\ pc = "call_heavy_light"
    /\ arg \in {BUCKET_COLS[i] : i \in DOMAIN BUCKET_COLS}
    /\ \E n \in 0..MaxBucketRows : yellow \in TablesOf(BucketRows(arg), n)
    /\ green = <<>>

\* lines 53-70 on the table yellow and the bucket column arg
CallHeavyLight ==
    /\ pc = "call_heavy_light"
    /\ res' \in _heavy_light_bucket_avg(yellow, arg)
    /\ pc' = "ret_heavy_light"
    /\ UNCHANGED IdleVars

NextBucket == CallHeavyLight

SpecBucket == InitBucket /\ [][NextBucket]_vars

SeriesRows ==
    {WithBucket(WithCo2(BaseTrip, co2), "month_of_year", m) :
        co2 \in {NULL, <<0>>, <<10>>, <<50>>, <<100>>}, m \in {1, 2, 3}}

InitSeries ==
    /\ Idle
    /\ pc = "call_month_series"
    /\ arg = NULL
    /\ \E ny \in 0..MaxSeriesRows : \E ng \in 0..(MaxSeriesRows - ny) :
          /\ yellow \in TablesOf(SeriesRows, ny)
          /\ green \in TablesOf(SeriesRows, ng)

\* lines 72-107 on the tables yellow and green
CallMonthSeries ==
    /\ pc = "call_month_series"
    /\ res' = _month_series_totals(yellow, green)
    /\ pc' = "ret_month_series"
    /\ UNCHANGED IdleVars

NextSeries == CallMonthSeries

SpecSeries == InitSeries /\ [][NextSeries]_vars

InitNames ==
    /\ Idle
    /\ pc \in {"call_month_name", "call_dow_name"}
    /\ arg \in (0 - MaxN)..MaxN
    /\ yellow = <<>>
    /\ green = <<>>

\* lines 109-111
CallMonthName ==
    /\ pc = "call_month_name"
    /\ res' = _month_name(arg)
    /\ pc' = "ret_month_name"
    /\ UNCHANGED IdleVars

\* lines 113-115
CallDowName ==
    /\ pc = "call_dow_name"
    /\ res' = _dow_name(arg)
    /\ pc' = "ret_dow_name"
    /\ UNCHANGED IdleVars

NextNames == CallMonthName \/ CallDowName

SpecNames == InitNames /\ [][NextNames]_vars

----------------------------------------------------------------------------
(* Properties                                                               *)

Last(seq) == seq[Len(seq)]
Printed(line) == \E k \in DOMAIN stdout : stdout[k] = line
NonNullRows(rows) == NonNullIdx(rows, DOMAIN rows)
Exited == pc = "exited"

\* C1: a run of main() that opened the connection has closed it exactly
\* once when the process ends, on every path.
C1_ClosedExactlyOnce == (Exited /\ opens > 0) => closes = 1

\* C2: when the query of question k raises, every later question k+1..6 is
\* still attempted in the same run.
C2_LaterQuestionsAttempted ==
    Exited => \A f \in raised : \A k \in (f[1] + 1)..6 :
                 \E a \in attempted : a[1] = k

\* the run met no failure of the connection, of a table check or of a query
NoBackendFailure ==
    /\ opens = 1
    /\ checkErr = {}
    /\ catalog = {YELLOW_TBL, GREEN_TBL}
    /\ raised = {}

\* "No data found" for the dataset follows the header of question q
NoDataReported(q, i) ==
    \E k \in DOMAIN stdout :
       /\ stdout[k] = Header(q)
       /\ \E j \in (k + 1)..(k + Len(LABELS)) :
             j <= Len(stdout) /\ stdout[j] = <<"No data found", LABELS[i]>>

\* the last query executed is that of question 2 for loop index i, so that
\* res is what _heavy_light_bucket_avg returned for it
HeavyLightLast(i) ==
    /\ <<2, i>> \in attempted
    /\ \A a \in attempted : a[1] < 2 \/ (a[1] = 2 /\ a[2] <= i)

\* C3: a table without a row of non-null trip_co2_kgs is not fatal:
\* _heavy_light_bucket_avg returns a no-data signal and no row of NULLs,
\* main() reports "No data found" for the dataset in questions 2-5, the
\* other questions run and the process ends normally.
C3_EmptyResultNonFatal ==
    \A i \in DOMAIN REQUIRED :
       (NoBackendFailure /\ NonNullRows(Table(i)) = {}) =>
          /\ HeavyLightLast(i) => res = NULL
          /\ Exited =>
                /\ exitCode = <<0>>
                /\ \A q \in 2..5 : NoDataReported(q, i)
                /\ \A q \in 1..6 : \E a \in attempted : a[1] = q

\* the first required table that is absent or whose check raised
Missing(i) == REQUIRED[i] \notin catalog \/ REQUIRED[i] \in checkErr
FirstMissing == CHOOSE i \in DOMAIN REQUIRED :
                   Missing(i) /\ \A j \in DOMAIN REQUIRED : Missing(j) => i <= j

\* C4: with the connection open, when a required table is absent or its
\* existence check raises, main() prints the name of that table and exits
\* with code 1; no question is queried, no header is printed and the exit
\* is not reported as "Analysis failed".
C4_MissingTableExits ==
    (opens = 1 /\ \E i \in DOMAIN REQUIRED : Missing(i)) =>
       /\ pc \in {"check", "exited"}
       /\ attempted = {}
       /\ \A q \in 1..6 : ~Printed(Header(q))
       /\ ~Printed(AnalysisFailed)
       /\ Exited =>
             /\ stdout = << <<"Missing required table", REQUIRED[FirstMissing]>> >>
             /\ exitCode = <<1>>

\* C4 witness: the check of green_transform, a table of the catalog, raised,
\* and the run ended on it.
C4_Witness ==
    /\ Exited
    /\ opens = 1
    /\ catalog = {YELLOW_TBL, GREEN_TBL}
    /\ checkErr = {GREEN_TBL}
    /\ exitCode = <<1>>

MonthsOf(rows) == GroupKeys(rows, "month_of_year")
HasEmission(rows, m) ==
    \E i \in DOMAIN rows :
       /\ rows[i].month_of_year = m
       /\ rows[i].trip_co2_kgs # NULL
       /\ rows[i].trip_co2_kgs[1] # 0
SeriesReturned == pc = "ret_month_series"

\* C5, as claimed: in every row of _month_series_totals, yellow_total_co2
\* is 0 exactly when no yellow row has the month, and the same for green.
C5_ZeroIffNoRow ==
    SeriesReturned => \A k \in DOMAIN res :
       /\ res[k].yellow_total_co2 = 0 <=> res[k].trip_month \notin MonthsOf(yellow)
       /\ res[k].green_total_co2 = 0 <=> res[k].trip_month \notin MonthsOf(green)

\* C5, amended: in every row of _month_series_totals, yellow_total_co2 is 0
\* exactly when no yellow row of the month has a non-null, non-zero
\* trip_co2_kgs (so it is 0 when no yellow row has the month), and the same
\* for green; emissions are non-negative.
C5_ZeroIffNoEmission ==
    SeriesReturned => \A k \in DOMAIN res :
       /\ res[k].yellow_total_co2 = 0 <=> ~HasEmission(yellow, res[k].trip_month)
       /\ res[k].green_total_co2 = 0 <=> ~HasEmission(green, res[k].trip_month)

\* C5 witness: a returned series with a month that yellow has rows of, all
\* of them null or zero, and a month that yellow has no row of.
C5_Witness ==
    /\ SeriesReturned
    /\ \E k \in DOMAIN res :
          /\ res[k].trip_month \in MonthsOf(yellow)
          /\ res[k].yellow_total_co2 = 0
          /\ res[k].green_total_co2 # 0
    /\ \E k \in DOMAIN res :
          /\ res[k].trip_month \notin MonthsOf(yellow)
          /\ res[k].yellow_total_co2 = 0

BucketReturned == pc = "ret_heavy_light"
NonNullCount(rows, col, b) == Cardinality(NonNullIdx(rows, GroupIdx(rows, col, b)))

\* C6: the bucket values _heavy_light_bucket_avg reports occur in the rows,
\* and the count it reports for the heaviest and for the lightest bucket is
\* the number of rows of non-null trip_co2_kgs with that bucket value.
C6_CountOfNonNullRows ==
    (BucketReturned /\ NonNullRows(yellow) # {}) =>
       /\ res[1] # NULL /\ res[1][1] \in GroupKeys(yellow, arg)
       /\ res[4] # NULL /\ res[4][1] \in GroupKeys(yellow, arg)
       /\ res[3] = <<NonNullCount(yellow, arg, res[1][1])>>
       /\ res[6] = <<NonNullCount(yellow, arg, res[4][1])>>

\* the mean of the non-null emissions of bucket b, when it has any
HasMean(rows, col, b) == NonNullIdx(rows, GroupIdx(rows, col, b)) # {}
MeanOf(rows, col, b) ==
    [sum |-> SumOver(rows, NonNullIdx(rows, GroupIdx(rows, col, b))),
     cnt |-> NonNullCount(rows, col, b)]
SameMean(a, b) == MeanLeq(a, b) /\ MeanLeq(b, a)

\* the rows (1.2, 5), (3.4, 5), (0.1, 9), in tenths of a kilogram
ExampleHours ==
    <<WithBucket(WithCo2(BaseTrip, <<12>>), "hour_of_day", 5),
      WithBucket(WithCo2(BaseTrip, <<34>>), "hour_of_day", 5),
      WithBucket(WithCo2(BaseTrip, <<1>>), "hour_of_day", 9)>>

\* what is reported as (bucket, mean, n) is bucket b with its own mean and count
ReportsBucket(rows, col, h, ha, hn) ==
    /\ h # NULL /\ ha # NULL /\ hn # NULL
    /\ h[1] \in GroupKeys(rows, col)
    /\ HasMean(rows, col, h[1])
    /\ SameMean(ha[1], MeanOf(rows, col, h[1]))
    /\ hn[1] = NonNullCount(rows, col, h[1])

\* C9: on a table with a row of non-null emission, the heaviest bucket has
\* the largest mean and the lightest the smallest, each reported mean and
\* count are those of the reported bucket, and with one bucket value the two
\* are the same; rows (1.2, 5), (3.4, 5), (0.1, 9) give 5 (2.3, n=2) and
\* 9 (0.1, n=1).
C9_HeaviestAndLightest ==
    (BucketReturned /\ NonNullRows(yellow) # {}) =>
       /\ ReportsBucket(yellow, arg, res[1], res[2], res[3])
       /\ ReportsBucket(yellow, arg, res[4], res[5], res[6])
       /\ \A b \in GroupKeys(yellow, arg) : HasMean(yellow, arg, b) =>
             /\ MeanLeq(MeanOf(yellow, arg, b), res[2][1])
             /\ MeanLeq(res[5][1], MeanOf(yellow, arg, b))
       /\ Cardinality(GroupKeys(yellow, arg)) = 1 =>
             /\ res[1] = res[4]
             /\ SameMean(res[2][1], res[5][1])
             /\ res[3] = res[6]
       /\ (yellow = ExampleHours /\ arg = "hour_of_day") =>
             res = << <<5>>, <<[sum |-> 46, cnt |-> 2]>>, <<2>>,
                      <<9>>, <<[sum |-> 1, cnt |-> 1]>>, <<1>> >>

UnionMonths == MonthsOf(yellow) \cup MonthsOf(green)

ExampleYellow ==
    <<WithBucket(WithCo2(BaseTrip, <<100>>), "month_of_year", 1),
      WithBucket(WithCo2(BaseTrip, <<50>>), "month_of_year", 3)>>
ExampleGreen == <<WithBucket(WithCo2(BaseTrip, <<10>>), "month_of_year", 2)>>
ExampleSeries ==
    <<[trip_month |-> 1, yellow_total_co2 |-> 100, green_total_co2 |-> 0],
      [trip_month |-> 2, yellow_total_co2 |-> 0, green_total_co2 |-> 10],
      [trip_month |-> 3, yellow_total_co2 |-> 50, green_total_co2 |-> 0]>>

\* C7: _month_series_totals returns one row for each month of either
\* table, none dropped and none twice, in strictly ascending order of
\* the month; yellow {(1,100),(3,50)} and green {(2,10)} give
\* [(1,100,0),(2,0,10),(3,50,0)].
C7_OneRowPerMonth ==
    SeriesReturned =>
       /\ Len(res) = Cardinality(UnionMonths)
       /\ {res[k].trip_month : k \in DOMAIN res} = UnionMonths
       /\ \A j, k \in DOMAIN res : j < k => res[j].trip_month < res[k].trip_month
       /\ (yellow = ExampleYellow /\ green = ExampleGreen) => res = ExampleSeries

\* C7 witness: the series of the example has been returned.
C7_Witness ==
    /\ SeriesReturned
    /\ yellow = ExampleYellow
    /\ green = ExampleGreen
    /\ Len(res) = 3

\* question 1 has just run for loop index i without a failure of the query
JustRanQ1(i) ==
    /\ <<1, i>> \in attempted \ raised
    /\ \/ i = 1 /\ pc = "q1" /\ t = 2
       \/ i = 2 /\ pc = "q2" /\ t = 1

\* C8: _largest_trip returns None exactly when the table has no row of
\* non-null trip_co2_kgs, and main() then prints "No data found" for the
\* dataset; otherwise it returns the emission, distance and timestamps of
\* one row of the table whose non-null emission no other row exceeds, and
\* main() prints these.
C8_LargestTrip ==
    \A i \in DOMAIN REQUIRED : JustRanQ1(i) =>
       LET rows == Table(i)
       IN /\ res = NULL <=> NonNullRows(rows) = {}
          /\ res = NULL => Last(stdout) = <<"No data found", LABELS[i]>>
          /\ res # NULL =>
                /\ \E k \in NonNullRows(rows) :
                      /\ res = <<rows[k].trip_co2_kgs[1], rows[k].trip_distance,
                                 rows[k].pickup_datetime, rows[k].dropoff_datetime>>
                      /\ \A j \in NonNullRows(rows) :
                            rows[j].trip_co2_kgs[1] <= rows[k].trip_co2_kgs[1]
                /\ Last(stdout) =
                      <<"largest", LABELS[i], res[1], res[2], res[3], res[4]>>

\* C8 witness: question 1 printed the larger of two yellow emissions, with
\* the distance of its row, and then found no data in an empty green table.
C8_Witness ==
    /\ JustRanQ1(2)
    /\ res = NULL
    /\ Last(stdout) = <<"No data found", "Green">>
    /\ Len(green) = 0
    /\ Len(yellow) = 2
    /\ yellow[1].trip_co2_kgs = <<0>>
    /\ yellow[2].trip_co2_kgs = <<12>>
    /\ yellow[1].trip_distance # yellow[2].trip_distance
    /\ Printed(<<"largest", "Yellow", 12, yellow[2].trip_distance,
                 yellow[2].pickup_datetime, yellow[2].dropoff_datetime>>)

MonthAbbreviations ==
    <<"Jan","Feb","Mar","Apr","May","Jun","Jul","Aug","Sep","Oct","Nov","Dec">>
WeekdayAbbreviations == <<"Sun","Mon","Tue","Wed","Thu","Fri","Sat">>

\* the decimal numeral of n, written out for |n| < 100
Numeral(n) ==
    LET a == IF n < 0 THEN 0 - n ELSE n
    IN (IF n < 0 THEN "-" ELSE "")
       \o (IF a >= 10 THEN DigitChars[(a \div 10) + 1] ELSE "")
       \o DigitChars[(a % 10) + 1]

\* C10: _month_name and _dow_name return for every integer: the n-th month
\* abbreviation for 1 <= n <= 12, the Sunday-first weekday abbreviation for
\* 0 <= n <= 6, and the decimal numeral of n for every other n (13 -> "13",
\* 7 -> "7", 0 and the negatives included).
C10_NamesTotal ==
    /\ pc = "call_month_name" => ENABLED CallMonthName
    /\ pc = "call_dow_name" => ENABLED CallDowName
    /\ pc = "ret_month_name" =>
          /\ res = IF 1 <= arg /\ arg <= 12 THEN MonthAbbreviations[arg]
                   ELSE Numeral(arg)
          /\ arg = 1 => res = "Jan"
          /\ arg = 12 => res = "Dec"
          /\ arg = 13 => res = "13"
          /\ arg = 0 => res = "0"
    /\ pc = "ret_dow_name" =>
          /\ res = IF 0 <= arg /\ arg <= 6 THEN WeekdayAbbreviations[arg + 1]
                   ELSE Numeral(arg)
          /\ arg = 0 => res = "Sun"
          /\ arg = 6 => res = "Sat"
          /\ arg = 7 => res = "7"
          /\ arg = 0 - 1 => res = "-1"

\* C10 witness: _month_name has returned the numeral of 0, which is out of
\* its range.
C10_Witness == pc = "ret_month_name" /\ arg = 0 /\ res = "0"

====
